---- MODULE Spec2Model ----
(***************************************************************************)
(* Traffic-speed analytics service (sergioaz/urbansdk).                    *)
(*                                                                         *)
(* The model covers the name/code mapping helpers (app/helpers/periods.py),*)
(* the five query operations of app/services/aggregate.py evaluated over   *)
(* an explicit relational store (speed_record and link tables), the shared *)
(* database handle (connected / disconnected), the bounding-box validator  *)
(* of app/models/spatial_filter.py and the three HTTP handlers of          *)
(* app/routers. A caller may repeat a service call that returned, so that  *)
(* two results in a row can be compared.                                   *)
(*                                                                         *)
(* Encodings: speeds are integers in hundredths (the column is             *)
(* DECIMAL(10,2)); an SQL average is an exact fraction [num, den];         *)
(* coordinates are integers in hundredths of a degree; a Python dict is a  *)
(* TLA+ record, so "key in dict" is  key \in DOMAIN dict.                  *)
(***************************************************************************)
EXTENDS Integers, Sequences, FiniteSets

VARIABLES
    speed_record_table,   \* rows of the observation table
    link_table,           \* rows of the segment table
    is_connected,         \* database.is_connected of the process-wide handle
    last                  \* the call in hand: operation, arguments, outcome

vars == <<speed_record_table, link_table, is_connected, last>>

-----------------------------------------------------------------------------
(* Generic helpers                                                         *)

Min2(a, b) == IF a <= b THEN a ELSE b
Max2(a, b) == IF a >= b THEN a ELSE b

SetMin(S) == CHOOSE x \in S : \A y \in S : x <= y

RECURSIVE SortedSeq(_)
\* the elements of a finite set of integers in ascending order
SortedSeq(S) == IF S = {} THEN <<>> ELSE <<SetMin(S)>> \o SortedSeq(S \ {SetMin(S)})

RECURSIVE SumSet(_, _)
\* sum of f[x] over x in S
SumSet(f, S) ==
    IF S = {} THEN 0
    ELSE LET x == CHOOSE y \in S : TRUE IN f[x] + SumSet(f, S \ {x})

\* all orderings of a finite set, as sequences without repetition
Orderings(S) ==
    {s \in [1..Cardinality(S) -> S] : \A i, j \in 1..Cardinality(S) : s[i] = s[j] => i = j}

-----------------------------------------------------------------------------
(* app/helpers/periods.py                                                  *)

\* a dict literal, as its items in insertion order
PERIOD_MAPPING ==
    << <<"Overnight", 1>>, <<"Early Morning", 2>>, <<"AM Peak", 3>>, <<"Midday", 4>>,
       <<"Early Afternoon", 5>>, <<"PM Peak", 6>>, <<"Evening", 7>> >>

\* the other convention the docstrings mention (1=Monday, 7=Sunday)
DAY_MAPPING_MondayFirst ==
    << <<"Monday", 1>>, <<"Tuesday", 2>>, <<"Wednesday", 3>>, <<"Thursday", 4>>,
       <<"Friday", 5>>, <<"Saturday", 6>>, <<"Sunday", 7>> >>

\* Sunday = 1
DAY_MAPPING ==
    << <<"Sunday", 1>>, <<"Monday", 2>>, <<"Tuesday", 3>>, <<"Wednesday", 4>>,
       <<"Thursday", 5>>, <<"Friday", 6>>, <<"Saturday", 7>> >>

\* dict.keys()
Keys(d) == {d[i][1] : i \in 1..Len(d)}

\* d[k] for a key of d: a later item of the same key overrides an earlier one
Lookup(d, k) ==
    LET i == CHOOSE j \in 1..Len(d) :
                 d[j][1] = k /\ \A m \in 1..Len(d) : d[m][1] = k => m <= j
    IN d[i][2]

\* {v: k for k, v in d.items()}
Reverse(d) == [i \in 1..Len(d) |-> <<d[i][2], d[i][1]>>]

\* the Literal[...] types PeriodName and DayName
PeriodName ==
    {"Overnight", "Early Morning", "AM Peak", "Midday", "Early Afternoon", "PM Peak", "Evening"}
DayName ==
    {"Sunday", "Monday", "Tuesday", "Wednesday", "Thursday", "Friday", "Saturday"}

\* outcomes of a call: a returned value or a raised exception; fetches is the
\* number of database.fetch_* calls the operation made
Return(v, f) == [kind |-> "return", value |-> v, fetches |-> f]
Raise(exc, msg, f) == [kind |-> "raise", exc |-> exc, msg |-> msg, fetches |-> f]

get_period_number(period_name) ==
    IF period_name \in Keys(PERIOD_MAPPING)
    THEN Return(Lookup(PERIOD_MAPPING, period_name), 0)
    ELSE Raise("KeyError", period_name, 0)

\* an inverse lookup that is off by one position
get_period_name_Shifted(period_number) ==
    IF period_number \in 1..Len(PERIOD_MAPPING)
    THEN Return(PERIOD_MAPPING[(period_number % Len(PERIOD_MAPPING)) + 1][1], 0)
    ELSE Raise("ValueError", "Invalid period number", 0)

get_period_name(period_number) ==
    LET reverse_mapping == Reverse(PERIOD_MAPPING) IN
    IF period_number \notin Keys(reverse_mapping)
    THEN Raise("ValueError", "Invalid period number", 0)
    ELSE Return(Lookup(reverse_mapping, period_number), 0)

\* a lookup with a default, DAY_MAPPING.get(day_name, 0)
get_day_number_Default(day_name) ==
    IF day_name \in Keys(DAY_MAPPING)
    THEN Return(Lookup(DAY_MAPPING, day_name), 0)
    ELSE Return(0, 0)

get_day_number(day_name) ==
    IF day_name \in Keys(DAY_MAPPING)
    THEN Return(Lookup(DAY_MAPPING, day_name), 0)
    ELSE Raise("KeyError", day_name, 0)

\* an inverse lookup that wraps a code into 1..7 instead of checking it
get_day_name_Wrapped(day_number) ==
    Return(Lookup(Reverse(DAY_MAPPING), ((day_number - 1) % 7) + 1), 0)

get_day_name(day_number) ==
    LET reverse_mapping == Reverse(DAY_MAPPING) IN
    IF day_number \notin Keys(reverse_mapping)
    THEN Raise("ValueError", "Invalid day number", 0)
    ELSE Return(Lookup(reverse_mapping, day_number), 0)

-----------------------------------------------------------------------------
(* The relational store: load_data/load_speed_records.py, load_link.py     *)

\* SQL NULL in a nullable numeric column
NULL == -1

\* number of candidate observation rows the store is drawn from
MaxRows == 7

\* candidate speed_record rows: link 100 with speeds 40, 42, 44 and link 200
\* with speeds 50, 60 and a NULL speed on (day 3, period 3); link 300 has no
\* row in the link table; the last row is on another (day, period)
FixtureRows ==
    << [id |-> 1, link_id |-> 100, day_of_week |-> 3, period |-> 3, average_speed |-> 4000],
       [id |-> 2, link_id |-> 100, day_of_week |-> 3, period |-> 3, average_speed |-> 4200],
       [id |-> 3, link_id |-> 100, day_of_week |-> 3, period |-> 3, average_speed |-> 4400],
       [id |-> 4, link_id |-> 200, day_of_week |-> 3, period |-> 3, average_speed |-> 5000],
       [id |-> 5, link_id |-> 200, day_of_week |-> 3, period |-> 3, average_speed |-> 6000],
       [id |-> 6, link_id |-> 300, day_of_week |-> 3, period |-> 3, average_speed |-> 3000],
       [id |-> 7, link_id |-> 200, day_of_week |-> 3, period |-> 3, average_speed |-> NULL],
       [id |-> 8, link_id |-> 100, day_of_week |-> 7, period |-> 1, average_speed |-> 2501] >>

\* a second set of candidate rows, whose means do not fall on a hundredth:
\* link 100 with speeds 40.00, 40.04, 40.04 (mean 40.02666...) and link 200
\* with speed 50.00, on (day 3, period 3)
PrecisionRows ==
    { [id |-> 11, link_id |-> 100, day_of_week |-> 3, period |-> 3, average_speed |-> 4000],
      [id |-> 12, link_id |-> 100, day_of_week |-> 3, period |-> 3, average_speed |-> 4004],
      [id |-> 13, link_id |-> 100, day_of_week |-> 3, period |-> 3, average_speed |-> 4004],
      [id |-> 14, link_id |-> 200, day_of_week |-> 3, period |-> 3, average_speed |-> 5000] }

\* link rows: link_id is UNIQUE; a geometry is an axis-parallel LINESTRING
\* from (x1, y1) to (x2, y2)
FixtureLinks ==
    { [link_id |-> 100, road_name |-> "Main Street",
       geometry |-> [x1 |-> -8175, y1 |-> 3020, x2 |-> -8170, y2 |-> 3020]],
      [link_id |-> 200, road_name |-> "Oak Avenue",
       geometry |-> [x1 |-> -8162, y1 |-> 3012, x2 |-> -8162, y2 |-> 3028]] }

\* ST_AsText(geometry)
ST_AsText(g) == [wkt |-> "LINESTRING", coords |-> <<g.x1, g.y1, g.x2, g.y2>>]

\* the opposite predicate, ST_Disjoint
ST_Intersects_Negated(g, west, south, east, north) ==
    \/ Min2(g.x1, g.x2) > Max2(west, east)
    \/ Max2(g.x1, g.x2) < Min2(west, east)
    \/ Min2(g.y1, g.y2) > Max2(south, north)
    \/ Max2(g.y1, g.y2) < Min2(south, north)

\* ST_Intersects(geometry, ST_MakeEnvelope(west, south, east, north, 4326)):
\* the envelope is the rectangle spanned by the two corners; touching counts
ST_Intersects(g, west, south, east, north) ==
    /\ Min2(g.x1, g.x2) <= Max2(west, east)
    /\ Max2(g.x1, g.x2) >= Min2(west, east)
    /\ Min2(g.y1, g.y2) <= Max2(south, north)
    /\ Max2(g.y1, g.y2) >= Min2(south, north)

\* duval_table JOIN link_info_table ON link_id, WHERE day_of_week = day AND period = period
JoinWhere(day, period) ==
    {r \in speed_record_table :
        /\ r.day_of_week = day
        /\ r.period = period
        /\ \E l \in link_table : l.link_id = r.link_id}

LinkRow(link_id) == CHOOSE l \in link_table : l.link_id = link_id

\* func.avg(average_speed) over a group: NULLs are skipped; NULL when none is left
SqlAvg(rows) ==
    LET vals == {r \in rows : r.average_speed # NULL} IN
    IF vals = {} THEN [isnull |-> TRUE, num |-> 0, den |-> 1]
    ELSE [isnull |-> FALSE,
          num |-> SumSet([r \in vals |-> r.average_speed], vals),
          den |-> Cardinality(vals)]

\* func.count(link_id) over a group: link_id is NOT NULL, so every row counts
SqlCount(rows) == Cardinality(rows)

\* GROUP BY link_id (with the link's columns): one result row per link
GroupRow(rows, link_id, day, period) ==
    LET g == {r \in rows : r.link_id = link_id} IN
    [link_id |-> link_id, day_of_week |-> day, period |-> period,
     link_average_speed |-> SqlAvg(g), link_record_count |-> SqlCount(g),
     road_name |-> LinkRow(link_id).road_name,
     geometry |-> LinkRow(link_id).geometry,
     geometry_wkt |-> ST_AsText(LinkRow(link_id).geometry)]

GroupedRows(rows, day, period) ==
    {GroupRow(rows, id, day, period) : id \in {r.link_id : r \in rows}}

\* ... ORDER BY link_id DESC
OrderByLinkId_Descending(grouped) ==
    LET ids == SortedSeq({g.link_id : g \in grouped}) IN
    [i \in 1..Len(ids) |-> CHOOSE g \in grouped : g.link_id = ids[Len(ids) + 1 - i]]

\* ... ORDER BY link_id
OrderByLinkId(grouped) ==
    LET ids == SortedSeq({g.link_id : g \in grouped}) IN
    [i \in 1..Len(ids) |-> CHOOSE g \in grouped : g.link_id = ids[i]]

-----------------------------------------------------------------------------
(* Python arithmetic on the averages                                       *)

\* round(n / d, 2) on a value in hundredths: nearest integer, ties to even
Round2(n, d) ==
    LET q == n \div d
        r == n % d
    IN IF 2 * r > d THEN q + 1
       ELSE IF 2 * r < d THEN q
       ELSE IF q % 2 = 0 THEN q ELSE q + 1

\* round(float(x) if x else 0, 2)
RoundOrZero(avg) == IF avg.isnull \/ avg.num = 0 THEN 0 ELSE Round2(avg.num, avg.den)

RECURSIVE SumFractions(_)
\* sum(float(row[...]) for row in results), as an exact fraction
SumFractions(s) ==
    IF s = <<>> THEN [num |-> 0, den |-> 1]
    ELSE LET t == SumFractions(Tail(s)) IN
         [num |-> Head(s).num * t.den + t.num * Head(s).den, den |-> Head(s).den * t.den]

RECURSIVE SumSeq(_)
SumSeq(s) == IF s = <<>> THEN 0 ELSE Head(s) + SumSeq(Tail(s))

-----------------------------------------------------------------------------
(* app/services/aggregate.py                                               *)

DayMsg == "Day must be between 1 and 7 (1=Monday, 7=Sunday)"

\* the guard without its check
InvalidInputArguments_Off(day, period) == FALSE

\* the guard with the period checked as well
InvalidInputArguments_PeriodChecked(day, period) ==
    day < 1 \/ day > 7 \/ period < 1 \/ period > 7

\* the "if day < 1 or day > 7: raise ValueError" guard that opens four of the
\* five operations, ahead of their try block; period is not looked at
InvalidInputArguments(day, period) == day < 1 \/ day > 7

\* a handler that answers a failed query with an empty result
WrapException_Swallowed(msg) == Return(<<>>, 1)

\* a handler that runs the query a second time before giving up
WrapException_Retried(msg) == Raise("Exception", msg, 2)

\* "except Exception as e: raise Exception(f'Failed to ...: {str(e)}')" around
\* the query of every operation: the fetch was attempted, the fault carries
\* the operation's message
WrapException(msg) == Raise("Exception", msg, 1)

\* a store in which running a query empties the table
AfterQuery_Emptied(table) == {}

\* a table after database.fetch_all / fetch_one of a select(...): every query
\* of the five operations is a SELECT, the rows stay as they are
AfterQuery(table) == table

\* the dict appended to links for one result row
LinkDict(row) ==
    [link_id |-> row.link_id,
     road_name |-> row.road_name,
     geometry |-> row.geometry_wkt,
     average_speed |-> RoundOrZero(row.link_average_speed)]

\* the record-weighted mean, for comparison; exact while no speed is NULL
OverallAverage_Weighted(results) ==
    Round2(SumSeq([i \in 1..Len(results) |-> results[i].link_average_speed.num]),
           SumSeq([i \in 1..Len(results) |-> results[i].link_average_speed.den]))

\* the mean of the per-link means after each was rounded
OverallAverage_RoundedFirst(results) ==
    Round2(SumSeq([i \in 1..Len(results) |-> RoundOrZero(results[i].link_average_speed)]),
           Len(results))

\* overall_average = total_speed / len(results), rounded: the mean of the
\* per-link means
OverallAverage(results) ==
    LET total_speed == SumFractions([i \in 1..Len(results) |-> results[i].link_average_speed])
    IN Round2(total_speed.num, total_speed.den * Len(results))

\* a zero record that does not echo its arguments
NoDataDict_Zeroed(day, period) ==
    [day_of_week |-> 0, period |-> 0, average_speed |-> 0, record_count |-> 0, links |-> <<>>]

\* the else branch of "if results"
NoDataDict(day, period) ==
    [day_of_week |-> day, period |-> period, average_speed |-> 0,
     record_count |-> 0, links |-> <<>>]

get_average_speed_by_day_period(day, period) ==
    IF InvalidInputArguments(day, period) THEN Raise("ValueError", DayMsg, 0)
    ELSE IF ~is_connected
    THEN WrapException("Failed to calculate average speed aggregation")
    ELSE LET results == OrderByLinkId(GroupedRows(JoinWhere(day, period), day, period)) IN
         IF results # <<>>
         THEN IF \E i \in 1..Len(results) : results[i].link_average_speed.isnull
              \* float(None) raises TypeError inside the try block
              THEN WrapException("Failed to calculate average speed aggregation")
              ELSE Return([day_of_week |-> results[1].day_of_week,
                           period |-> results[1].period,
                           average_speed |-> OverallAverage(results),
                           record_count |->
                               SumSeq([i \in 1..Len(results) |-> results[i].link_record_count]),
                           links |-> [i \in 1..Len(results) |-> LinkDict(results[i])]], 1)
         ELSE Return(NoDataDict(day, period), 1)

\* the same record without the 'error' key
LinkNoDataDict_NoMarker(link_id, day, period) ==
    [link_id |-> link_id, day_of_week |-> day, period |-> period, average_speed |-> 0]

\* the else branch of "if result" of the per-link operation
LinkNoDataDict(link_id, day, period) ==
    [link_id |-> link_id, day_of_week |-> day, period |-> period, average_speed |-> 0,
     error |-> "No data found for the specified link, day, and period"]

\* the per-link query on speed_record alone, without the join to link
get_average_speed_by_link_day_period_NoJoin(link_id, day, period) ==
    IF ~is_connected
    THEN WrapException("Failed to calculate average speed aggregation for link")
    ELSE LET rows == {r \in speed_record_table :
                         r.link_id = link_id /\ r.day_of_week = day /\ r.period = period}
         IN IF rows # {}
            THEN Return([link_id |-> link_id,
                         day_of_week |-> day,
                         period |-> period,
                         average_speed |-> RoundOrZero(SqlAvg(rows)),
                         record_count |-> SqlCount(rows),
                         road_name |-> NULL,
                         geometry |-> NULL], 1)
            ELSE Return(LinkNoDataDict(link_id, day, period), 1)

get_average_speed_by_link_day_period(link_id, day, period) ==
    IF ~is_connected
    THEN WrapException("Failed to calculate average speed aggregation for link")
    ELSE LET rows == {r \in JoinWhere(day, period) : r.link_id = link_id}
             grouped == GroupedRows(rows, day, period)
         IN IF grouped # {}
            THEN LET result == CHOOSE g \in grouped : TRUE IN
                 Return([link_id |-> result.link_id,
                         day_of_week |-> result.day_of_week,
                         period |-> result.period,
                         average_speed |-> RoundOrZero(result.link_average_speed),
                         record_count |-> result.link_record_count,
                         road_name |-> result.road_name,
                         geometry |-> result.geometry], 1)
            ELSE Return(LinkNoDataDict(link_id, day, period), 1)

\* the rows of the join whose link geometry intersects the envelope
JoinWhereInBox(west, south, east, north, day, period) ==
    {r \in JoinWhere(day, period) :
        ST_Intersects(LinkRow(r.link_id).geometry, west, south, east, north)}

\* the part of a store order that concerns the ids of a result
OrderOf(order, ids) == SelectSeq(order, LAMBDA id : id \in ids)

RECURSIVE SelectLinkId(_, _)
\* select(link_id) over the joined rows, one value per row, in the order the
\* store emits them: the rows of a link follow each other
SelectLinkId(rows, order) ==
    IF order = <<>> THEN <<>>
    ELSE [k \in 1..Cardinality({r \in rows : r.link_id = Head(order)}) |-> Head(order)]
            \o SelectLinkId(rows, Tail(order))

\* a select without .distinct(): every row is kept
Distinct_Off(s) == s

RECURSIVE Distinct(_)
\* .distinct(): a value is kept at its first occurrence only
Distinct(s) ==
    IF s = <<>> THEN <<>>
    ELSE LET d == Distinct(SubSeq(s, 1, Len(s) - 1)) IN
         IF \E i \in 1..Len(d) : d[i] = s[Len(s)] THEN d ELSE Append(d, s[Len(s)])

\* SELECT DISTINCT link_id has no ORDER BY: the list comes in the order the
\* store happens to emit the rows; order is that order, over the link ids
get_link_in_box_day_period(west, south, east, north, day, period, order) ==
    IF InvalidInputArguments(day, period) THEN Raise("ValueError", DayMsg, 0)
    ELSE IF ~is_connected
    THEN WrapException("Failed to retrieve links in box by day and period")
    ELSE LET rows == JoinWhereInBox(west, south, east, north, day, period)
             result_set == Distinct(SelectLinkId(rows, order))
         IN Return(result_set, 1)

get_links_with_geometries_in_box_day_period(west, south, east, north, day, period, order) ==
    IF InvalidInputArguments(day, period) THEN Raise("ValueError", DayMsg, 0)
    ELSE IF ~is_connected
    THEN WrapException("Failed to retrieve links with geometries in box by day and period")
    ELSE LET rows == JoinWhereInBox(west, south, east, north, day, period)
             \* GROUP BY link_id, road_name, geometry: one row per link, unordered
             ids == OrderOf(order, {r.link_id : r \in rows})
         IN Return([i \in 1..Len(ids) |-> LinkDict(GroupRow(rows, ids[i], day, period))], 1)

get_links_geometry_roadname_speed_by_day_period(day, period) ==
    IF InvalidInputArguments(day, period) THEN Raise("ValueError", DayMsg, 0)
    ELSE IF ~is_connected
    THEN WrapException("Failed to get simplified aggregate data")
    ELSE LET results == OrderByLinkId(GroupedRows(JoinWhere(day, period), day, period)) IN
         Return([i \in 1..Len(results) |->
                    [link_id |-> results[i].link_id,
                     geometry |-> results[i].geometry_wkt,
                     road_name |-> results[i].road_name,
                     average_speed |-> RoundOrZero(results[i].link_average_speed)]], 1)

-----------------------------------------------------------------------------
(* app/models and app/routers: the HTTP boundary                           *)

\* a response of a handler, with the service calls the handler made
Response(status, detail, body, calls) ==
    [status |-> status, detail |-> detail, body |-> body, service_calls |-> calls]

\* FastAPI's answer to a request that fails parameter or body validation:
\* the handler does not run
Unprocessable == Response(422, "validation error", <<>>, <<>>)

\* a length check that only asks for enough values
WrongLength_TooFewOnly(v) == Len(v) < 4

\* "if len(v) != 4"
WrongLength(v) == Len(v) # 4

\* the range check with the bounds left out
LongitudeOutOfRange_Exclusive(west, east) ==
    ~(-18000 < west /\ west < 18000) \/ ~(-18000 < east /\ east < 18000)

\* "if not (-180 <= west <= 180) or not (-180 <= east <= 180)"
LongitudeOutOfRange(west, east) ==
    ~(-18000 <= west /\ west <= 18000) \/ ~(-18000 <= east /\ east <= 18000)

\* "if not (-90 <= south <= 90) or not (-90 <= north <= 90)"
LatitudeOutOfRange(south, north) ==
    ~(-9000 <= south /\ south <= 9000) \/ ~(-9000 <= north /\ north <= 9000)

\* an order check that lets equal bounds through
WestNotBelowEast_EqualAllowed(west, east) == west > east

\* "if west >= east"
WestNotBelowEast(west, east) == west >= east

\* "if south >= north"
SouthNotBelowNorth(south, north) == south >= north

\* SpatialFilterIn.validate_bbox: returns v, or raises the ValueError that
\* pydantic reports as a validation error
validate_bbox(v) ==
    IF WrongLength(v)
    THEN Raise("ValueError", "Bounding box must contain exactly 4 coordinates", 0)
    ELSE LET west == v[1]
             south == v[2]
             east == v[3]
             north == v[4]
         IN IF LongitudeOutOfRange(west, east)
            THEN Raise("ValueError",
                       "Longitude values (west, east) must be between -180 and 180", 0)
            ELSE IF LatitudeOutOfRange(south, north)
            THEN Raise("ValueError",
                       "Latitude values (south, north) must be between -90 and 90", 0)
            ELSE IF WestNotBelowEast(west, east)
            THEN Raise("ValueError", "West longitude must be less than east longitude", 0)
            ELSE IF SouthNotBelowNorth(south, north)
            THEN Raise("ValueError", "South latitude must be less than north latitude", 0)
            ELSE Return(v, 0)

\* a tuple built latitude first
get_bbox_tuple_LatitudeFirst(bbox) == <<bbox[2], bbox[1], bbox[4], bbox[3]>>

\* SpatialFilterIn.get_bbox_tuple: tuple(self.bbox)
get_bbox_tuple(bbox) == <<bbox[1], bbox[2], bbox[3], bbox[4]>>

\* the fields of AggregateLinkResponse declared with Field(...): required
AggregateLinkRequired ==
    {"link_id", "day_of_week", "period", "average_speed", "average_freeflow",
     "record_count", "length"}

\* the fields of AggregateLinkResponse declared Optional, default None
AggregateLinkOptional ==
    {"road_name", "usdk_speed_category", "funclass_id", "speedcat", "volume_value",
     "volume_bin_id", "volume_year", "volumes_bin_description", "geo_json"}

\* AggregateLinkResponse(**result): the declared fields result supplies;
\* keys that are no field of the model are ignored
AggregateLinkBody(result) ==
    [f \in DOMAIN result \cap (AggregateLinkRequired \cup AggregateLinkOptional) |-> result[f]]

\* without the re-raise, "except Exception" would answer 500
LinkNotFound_Swallowed(calls) == Response(500, "Internal server error", <<>>, calls)

\* "if 'error' in result: raise HTTPException(404, ...)", which
\* "except HTTPException: raise" lets through
LinkNotFound(calls) == Response(404, "No data found for link", <<>>, calls)

\* GET /aggregates/{link_id}?day=..&period=..
get_aggregate_link_data(link_id, day, period) ==
    IF day \notin DayName \/ period \notin PeriodName THEN Unprocessable
    ELSE LET day_number == Lookup(DAY_MAPPING, day)
             period_number == Lookup(PERIOD_MAPPING, period)
             out == get_average_speed_by_link_day_period(link_id, day_number, period_number)
             calls == << [op |-> "get_average_speed_by_link_day_period",
                          args |-> <<link_id, day_number, period_number>>,
                          outcome |-> out] >>
         IN IF out.kind = "raise"
            THEN Response(500, "Internal server error", <<>>, calls)
            ELSE IF "error" \in DOMAIN out.value
            THEN LinkNotFound(calls)
            ELSE IF ~(AggregateLinkRequired \subseteq DOMAIN out.value)
            \* pydantic's ValidationError is caught by "except Exception"
            THEN Response(500, "Internal server error", <<>>, calls)
            ELSE Response(200, "", AggregateLinkBody(out.value), calls)

\* GET /aggregates/?day=..&period=..
\* the response model of one entry of GET /aggregates/
LinkData(link) ==
    [link_id |-> link.link_id,
     geometry |-> link.geometry,
     road_name |-> link.road_name,
     average_speed |-> link.average_speed]

\* a handler whose catch-all turns its own 404 into a 500
AggregatesNotFound_Swallowed(calls) == Response(500, "Internal server error", <<>>, calls)

\* "if not links_data: raise HTTPException(404, ...)", passed on by
\* "except HTTPException: raise"
AggregatesNotFound(calls) == Response(404, "No data found for day", <<>>, calls)

get_aggregated_speed(day, period) ==
    IF day \notin DayName \/ period \notin PeriodName THEN Unprocessable
    ELSE LET day_number == get_day_number(day).value
             period_number == get_period_number(period).value
             out == get_links_geometry_roadname_speed_by_day_period(day_number, period_number)
             calls == << [op |-> "get_links_geometry_roadname_speed_by_day_period",
                          args |-> <<day_number, period_number>>,
                          outcome |-> out] >>
         IN IF out.kind = "raise"
            THEN IF out.exc = "ValueError"
                 THEN Response(400, "Validation error", <<>>, calls)
                 ELSE Response(500, "Internal server error", <<>>, calls)
            ELSE IF out.value = <<>>
            THEN AggregatesNotFound(calls)
            ELSE Response(200, "", [i \in 1..Len(out.value) |-> LinkData(out.value[i])], calls)

\* a handler that treats an empty result as not found
SpatialFilterResponse_NotFoundWhenEmpty(links, day_of_week, period, bbox, calls) ==
    IF links = <<>>
    THEN Response(404, "No data found", <<>>, calls)
    ELSE Response(200, "",
                  [links |-> links, count |-> Len(links), day_of_week |-> day_of_week,
                   period |-> period, bbox |-> bbox], calls)

\* "response = SpatialFilterResponse(links=..., count=len(links), ...)",
\* returned whatever the number of links
SpatialFilterResponse(links, day_of_week, period, bbox, calls) ==
    Response(200, "",
             [links |-> links, count |-> Len(links), day_of_week |-> day_of_week,
              period |-> period, bbox |-> bbox], calls)

\* POST /spatial-filter/ with body {day, period, bbox}
get_links_in_spatial_filter(day, period, bbox, order) ==
    IF day \notin DayName \/ period \notin PeriodName \/ validate_bbox(bbox).kind = "raise"
    THEN Unprocessable
    ELSE LET \* the field holds what the validator returned
             filter_request == [day |-> day, period |-> period,
                                bbox |-> validate_bbox(bbox).value]
             day_number == get_day_number(filter_request.day).value
             period_number == get_period_number(filter_request.period).value
             t == get_bbox_tuple(filter_request.bbox)
             west == t[1]
             south == t[2]
             east == t[3]
             north == t[4]
             out == get_links_with_geometries_in_box_day_period(
                        west, south, east, north, day_number, period_number, order)
             calls == << [op |-> "get_links_with_geometries_in_box_day_period",
                          args |-> <<west, south, east, north, day_number, period_number>>,
                          outcome |-> out] >>
         IN IF out.kind = "raise"
            THEN IF out.exc = "ValueError"
                 THEN Response(400, "Validation error", <<>>, calls)
                 ELSE Response(500, "Internal server error", <<>>, calls)
            ELSE SpatialFilterResponse(out.value, day_number, period_number,
                                       filter_request.bbox, calls)

-----------------------------------------------------------------------------
(* Inputs                                                                  *)

\* day and period codes handed to the service operations: in range, at the
\* edges, just outside 1..7 and far outside
DayCodes == {0, 3, 7, 8}
PeriodCodes == {0, 1, 3, 999}

\* link ids asked for: with data, without a link row, unknown
LinkIds == {100, 200, 300, 999999999}

\* the bounding box [-81.8, 30.1, -81.6, 30.3] and its sub-box
\* [-81.75, 30.15, -81.65, 30.25]
BigBox == <<-8180, 3010, -8160, 3030>>
SubBox == <<-8175, 3015, -8165, 3025>>

\* the whole globe, [-180, -90, 180, 90]
WorldBox == <<-18000, -9000, 18000, 9000>>

\* a box that holds no link, [-90, 25, -89, 26]
OceanBox == <<-9000, 2500, -8900, 2600>>

\* boxes handed to the spatial operations
ServiceBoxes == {BigBox, SubBox, WorldBox, OceanBox}

\* bbox values of request bodies: the valid boxes, three and five values, west
\* out of range, west > east, west = east
RequestBoxes ==
    ServiceBoxes \cup
    { <<-8180, 3010, -8160>>,
      <<-8180, 3010, -8160, 3030, 0>>,
      <<20000, 3010, -8160, 3030>>,
      <<-8160, 3010, -8180, 3030>>,
      <<-8160, 3010, -8160, 3030>> }

\* values given to the validator alone: also one value and none, each
\* coordinate just outside its range, south > north, south = north, and a box
\* that is both out of range and inverted
ValidatorBoxes ==
    RequestBoxes \cup
    { <<>>,
      <<-8180>>,
      <<-18001, 3010, -8160, 3030>>,
      <<-8180, 3010, 18001, 3030>>,
      <<-8180, -9001, -8160, 3030>>,
      <<-8180, 3010, -8160, 9001>>,
      <<-8180, 3030, -8160, 3010>>,
      <<-8180, 3010, -8160, 3010>>,
      <<20000, 3010, 19000, 3030>> }

\* names sent by clients: the valid ones, a stray one and a valid one in
\* another case
RequestDays == DayName \cup {"Funday", "tuesday"}
RequestPeriods == PeriodName \cup {"Invalid Period", "AM PEAK"}
RequestLinkIds == {100, 300}

\* what a handler parameter holds when the request does not carry it
Missing == "<missing>"

\* the value of a parameter of a query string or JSON body
Param(params, name) == IF name \in DOMAIN params THEN params[name] ELSE Missing

\* query strings: every pair of names, and the two with one parameter left out
RequestParams ==
    [day : RequestDays, period : RequestPeriods]
        \cup {[day |-> "Tuesday"], [period |-> "AM Peak"]}

\* JSON bodies of POST /spatial-filter/: every pair of names with the large
\* box, every box with Tuesday / AM Peak, and the two with a name left out
RequestBodies ==
    {[day |-> d, period |-> p, bbox |-> BigBox] : d \in RequestDays, p \in RequestPeriods}
        \cup {[day |-> "Tuesday", period |-> "AM Peak", bbox |-> b] : b \in RequestBoxes}
        \cup {[day |-> "Tuesday", bbox |-> BigBox], [period |-> "AM Peak", bbox |-> BigBox]}

\* the orders in which the store may emit the rows of an unordered query,
\* as orders of the link ids
StoreOrders == Orderings({l.link_id : l \in link_table})

\* codes handed to the inverse lookups: 1..7, its neighbours, a negative
\* and a large one
NameCodes == -1..8 \cup {999}

Idle == [layer |-> "idle"]

HelperCall(op, arg, outcome) ==
    [layer |-> "helper", op |-> op, args |-> <<arg>>, outcome |-> outcome]

ServiceCall(op, args, outcome) ==
    [layer |-> "service", op |-> op, args |-> args, connected |-> is_connected,
     outcome |-> outcome]

\* the second of two calls a caller makes in a row, with the first one kept
SecondCall(op, args, outcome, first) ==
    [layer |-> "service", op |-> op, args |-> args, connected |-> is_connected,
     outcome |-> outcome,
     first |-> [args |-> first.args, connected |-> first.connected,
                outcome |-> first.outcome]]

\* the operations the consistency and box-size tests call more than once
RepeatedOperations ==
    {"get_average_speed_by_day_period", "get_average_speed_by_link_day_period",
     "get_link_in_box_day_period", "get_links_with_geometries_in_box_day_period"}

SpatialOperations ==
    {"get_link_in_box_day_period", "get_links_with_geometries_in_box_day_period"}

\* the call op(*args)
Invoke(op, args, order) ==
    CASE op = "get_average_speed_by_day_period" ->
            get_average_speed_by_day_period(args[1], args[2])
      [] op = "get_average_speed_by_link_day_period" ->
            get_average_speed_by_link_day_period(args[1], args[2], args[3])
      [] op = "get_link_in_box_day_period" ->
            get_link_in_box_day_period(args[1], args[2], args[3], args[4],
                                       args[5], args[6], order)
      [] op = "get_links_with_geometries_in_box_day_period" ->
            get_links_with_geometries_in_box_day_period(args[1], args[2], args[3], args[4],
                                                        args[5], args[6], order)

HttpCall(op, args, response) ==
    [layer |-> "http", op |-> op, args |-> args, connected |-> is_connected,
     response |-> response]

-----------------------------------------------------------------------------
(* State machine                                                           *)

\* the store as the loaders left it; the handle is created disconnected
Init ==
    /\ speed_record_table \in
          (SUBSET {FixtureRows[i] : i \in 1..MaxRows}) \cup (SUBSET PrecisionRows)
    /\ link_table = FixtureLinks
    /\ is_connected = FALSE
    /\ last = Idle

\* lifespan start-up, or a test's "await database.connect()": before the
\* calls it serves, so no call is in hand
Connect ==
    /\ last = Idle
    /\ ~is_connected
    /\ is_connected' = TRUE
    /\ UNCHANGED <<speed_record_table, link_table, last>>

\* lifespan shutdown, or a test's "await database.disconnect()": after the
\* calls are done
Disconnect ==
    /\ last = Idle
    /\ is_connected
    /\ is_connected' = FALSE
    /\ UNCHANGED <<speed_record_table, link_table, last>>

\* "await database.disconnect()" by another task or test while a caller that
\* got a result is about to call again: the handle is shared by the process
DisconnectBetweenCalls ==
    /\ last.layer = "service"
    /\ "first" \notin DOMAIN last
    /\ last.outcome.kind = "return"
    /\ is_connected
    /\ is_connected' = FALSE
    /\ UNCHANGED <<speed_record_table, link_table, last>>

\* the caller takes the outcome; the next call can start
Done ==
    /\ last # Idle
    /\ last' = Idle
    /\ UNCHANGED <<speed_record_table, link_table, is_connected>>

CallGetDayNumber ==
    /\ last = Idle
    /\ \E name \in RequestDays :
         last' = HelperCall("get_day_number", name, get_day_number(name))
    /\ UNCHANGED <<speed_record_table, link_table, is_connected>>

CallGetPeriodNumber ==
    /\ last = Idle
    /\ \E name \in RequestPeriods :
         last' = HelperCall("get_period_number", name, get_period_number(name))
    /\ UNCHANGED <<speed_record_table, link_table, is_connected>>

CallGetDayName ==
    /\ last = Idle
    /\ \E code \in NameCodes :
         last' = HelperCall("get_day_name", code, get_day_name(code))
    /\ UNCHANGED <<speed_record_table, link_table, is_connected>>

CallGetPeriodName ==
    /\ last = Idle
    /\ \E code \in NameCodes :
         last' = HelperCall("get_period_name", code, get_period_name(code))
    /\ UNCHANGED <<speed_record_table, link_table, is_connected>>

\* SpatialFilterIn(bbox=...): the field validator on its own
CallValidateBbox ==
    /\ last = Idle
    /\ \E v \in ValidatorBoxes :
         last' = HelperCall("validate_bbox", v, validate_bbox(v))
    /\ UNCHANGED <<speed_record_table, link_table, is_connected>>

CallAverageSpeedByDayPeriod ==
    /\ last = Idle
    /\ \E day \in DayCodes, period \in PeriodCodes :
         last' = ServiceCall("get_average_speed_by_day_period", <<day, period>>,
                             get_average_speed_by_day_period(day, period))
    /\ speed_record_table' = AfterQuery(speed_record_table)
    /\ link_table' = AfterQuery(link_table)
    /\ UNCHANGED is_connected

CallAverageSpeedByLinkDayPeriod ==
    /\ last = Idle
    /\ \E link_id \in LinkIds, day \in DayCodes, period \in PeriodCodes :
         last' = ServiceCall("get_average_speed_by_link_day_period", <<link_id, day, period>>,
                             get_average_speed_by_link_day_period(link_id, day, period))
    /\ speed_record_table' = AfterQuery(speed_record_table)
    /\ link_table' = AfterQuery(link_table)
    /\ UNCHANGED is_connected

CallLinkInBox ==
    /\ last = Idle
    /\ \E box \in ServiceBoxes, day \in DayCodes, period \in PeriodCodes :
         \E order \in StoreOrders :
            last' = ServiceCall("get_link_in_box_day_period",
                                <<box[1], box[2], box[3], box[4], day, period>>,
                                get_link_in_box_day_period(
                                    box[1], box[2], box[3], box[4], day, period, order))
    /\ speed_record_table' = AfterQuery(speed_record_table)
    /\ link_table' = AfterQuery(link_table)
    /\ UNCHANGED is_connected

CallLinksWithGeometriesInBox ==
    /\ last = Idle
    /\ \E box \in ServiceBoxes, day \in DayCodes, period \in PeriodCodes :
         \E order \in StoreOrders :
            last' = ServiceCall("get_links_with_geometries_in_box_day_period",
                                <<box[1], box[2], box[3], box[4], day, period>>,
                                get_links_with_geometries_in_box_day_period(
                                    box[1], box[2], box[3], box[4], day, period, order))
    /\ speed_record_table' = AfterQuery(speed_record_table)
    /\ link_table' = AfterQuery(link_table)
    /\ UNCHANGED is_connected

CallLinksGeometryRoadnameSpeed ==
    /\ last = Idle
    /\ \E day \in DayCodes, period \in PeriodCodes :
         last' = ServiceCall("get_links_geometry_roadname_speed_by_day_period",
                             <<day, period>>,
                             get_links_geometry_roadname_speed_by_day_period(day, period))
    /\ speed_record_table' = AfterQuery(speed_record_table)
    /\ link_table' = AfterQuery(link_table)
    /\ UNCHANGED is_connected

\* "result1 = await f(...); result2 = await f(...)": a caller whose call
\* returned calls the same operation again, with the same arguments or, for a
\* spatial operation, with another box and the same day and period
CallAgain ==
    /\ last.layer = "service"
    /\ last.op \in RepeatedOperations
    /\ "first" \notin DOMAIN last
    /\ last.outcome.kind = "return"
    /\ \E box \in ServiceBoxes, order \in StoreOrders :
         LET args == IF last.op \in SpatialOperations
                     THEN <<box[1], box[2], box[3], box[4], last.args[5], last.args[6]>>
                     ELSE last.args
         IN last' = SecondCall(last.op, args, Invoke(last.op, args, order), last)
    /\ speed_record_table' = AfterQuery(speed_record_table)
    /\ link_table' = AfterQuery(link_table)
    /\ UNCHANGED is_connected

RequestAggregateLink ==
    /\ last = Idle
    /\ \E link_id \in RequestLinkIds, params \in RequestParams :
         LET day == Param(params, "day")
             period == Param(params, "period")
         IN last' = HttpCall("GET /aggregates/{link_id}", <<link_id, day, period>>,
                             get_aggregate_link_data(link_id, day, period))
    /\ speed_record_table' = AfterQuery(speed_record_table)
    /\ link_table' = AfterQuery(link_table)
    /\ UNCHANGED is_connected

RequestAggregates ==
    /\ last = Idle
    /\ \E params \in RequestParams :
         LET day == Param(params, "day")
             period == Param(params, "period")
         IN last' = HttpCall("GET /aggregates/", <<day, period>>,
                             get_aggregated_speed(day, period))
    /\ speed_record_table' = AfterQuery(speed_record_table)
    /\ link_table' = AfterQuery(link_table)
    /\ UNCHANGED is_connected

RequestSpatialFilter ==
    /\ last = Idle
    /\ \E body \in RequestBodies, order \in StoreOrders :
         LET day == Param(body, "day")
             period == Param(body, "period")
         IN last' = HttpCall("POST /spatial-filter/", <<day, period, body.bbox>>,
                             get_links_in_spatial_filter(day, period, body.bbox, order))
    /\ speed_record_table' = AfterQuery(speed_record_table)
    /\ link_table' = AfterQuery(link_table)
    /\ UNCHANGED is_connected

Next ==
    \/ Connect
    \/ Disconnect
    \/ DisconnectBetweenCalls
    \/ Done
    \/ CallGetDayNumber
    \/ CallGetPeriodNumber
    \/ CallGetDayName
    \/ CallGetPeriodName
    \/ CallValidateBbox
    \/ CallAverageSpeedByDayPeriod
    \/ CallAverageSpeedByLinkDayPeriod
    \/ CallLinkInBox
    \/ CallLinksWithGeometriesInBox
    \/ CallLinksGeometryRoadnameSpeed
    \/ CallAgain
    \/ RequestAggregateLink
    \/ RequestAggregates
    \/ RequestSpatialFilter

Spec == Init /\ [][Next]_vars

-----------------------------------------------------------------------------
(* Properties                                                              *)

Abs(x) == IF x < 0 THEN -x ELSE x

RECURSIVE ProdSet(_, _)
\* product of f[x] over x in S
ProdSet(f, S) ==
    IF S = {} THEN 1
    ELSE LET x == CHOOSE y \in S : TRUE IN f[x] * ProdSet(f, S \ {x})

IsServiceCall(op) == last.layer = "service" /\ last.op = op
IsHttpCall(op) == last.layer = "http" /\ last.op = op
IsHelperCall(op) == last.layer = "helper" /\ last.op = op

\* the observation rows of one link on (day, period), read off the table
ObsOf(link_id, day, period) ==
    {r \in speed_record_table :
        r.link_id = link_id /\ r.day_of_week = day /\ r.period = period}

\* the links that have a link row and at least one observation on (day, period)
LinksWithData(day, period) ==
    {l.link_id : l \in {x \in link_table : ObsOf(x.link_id, day, period) # {}}}

SpeedsOf(link_id, day, period) ==
    {r \in ObsOf(link_id, day, period) : r.average_speed # NULL}

\* C1: the overall average_speed of the global aggregate is the unweighted
\* mean of the per-link means (each link counts once), rounded to the nearest
\* hundredth, and record_count is the sum of the per-link observation counts;
\* links 100 (40, 42, 44) and 200 (50, 60) give 42.00, 55.00, 48.50 and 5.
C1_UnweightedMeanOfLinkMeans ==
    (/\ IsServiceCall("get_average_speed_by_day_period")
     /\ last.outcome.kind = "return"
     /\ last.outcome.value.links # <<>>)
    => LET day == last.args[1]
           period == last.args[2]
           v == last.outcome.value
           L == LinksWithData(day, period)
           cnt == [l \in L |-> Cardinality(SpeedsOf(l, day, period))]
           sum == [l \in L |->
                     SumSet([r \in SpeedsOf(l, day, period) |-> r.average_speed],
                            SpeedsOf(l, day, period))]
           \* sum over l of sum[l] / cnt[l], over the common denominator
           num == SumSet([l \in L |-> sum[l] * ProdSet(cnt, L \ {l})], L)
           den == ProdSet(cnt, L) * Cardinality(L)
       IN /\ 2 * Abs(v.average_speed * den - num) <= den
          /\ v.record_count =
                SumSet([l \in L |-> Cardinality(ObsOf(l, day, period))], L)
          /\ ({r.id : r \in ObsOf(100, 3, 3) \cup ObsOf(200, 3, 3)} = 1..5
                 /\ day = 3 /\ period = 3)
             => /\ v.average_speed = 4850
                /\ v.record_count = 5
                /\ v.links[1].link_id = 100 /\ v.links[1].average_speed = 4200
                /\ v.links[2].link_id = 200 /\ v.links[2].average_speed = 5500

\* C1 witness: the aggregate over the five observations of links 100 and 200
\* returned 48.50 over 5 records (the record-weighted mean would be 47.20)
C1_Witness ==
    /\ IsServiceCall("get_average_speed_by_day_period")
    /\ last.args = <<3, 3>>
    /\ {r.id : r \in ObsOf(100, 3, 3) \cup ObsOf(200, 3, 3)} = 1..5
    /\ last.outcome.kind = "return"
    /\ last.outcome.value.average_speed = 4850
    /\ last.outcome.value.record_count = 5

\* C2: when no observation row matches (day, period), the global aggregate,
\* called with a day code that passes its check and a connected handle,
\* returns {day_of_week: day, period: period, average_speed: 0.0,
\* record_count: 0, links: []} and does not raise.
C2_NoMatchReturnsZeroRecord ==
    (/\ IsServiceCall("get_average_speed_by_day_period")
     /\ last.args[1] \in 1..7
     /\ last.connected
     /\ ~\E r \in speed_record_table :
            r.day_of_week = last.args[1] /\ r.period = last.args[2])
    => /\ last.outcome.kind = "return"
       /\ last.outcome.value =
             [day_of_week |-> last.args[1], period |-> last.args[2],
              average_speed |-> 0, record_count |-> 0, links |-> <<>>]

\* C2 witness: the store holds observations, none of them on (7, 3), and the
\* aggregate for (7, 3) returned the zero record
C2_Witness ==
    /\ IsServiceCall("get_average_speed_by_day_period")
    /\ last.args = <<7, 3>>
    /\ speed_record_table # {}
    /\ last.outcome.kind = "return"
    /\ last.outcome.value.record_count = 0
    /\ last.outcome.value.day_of_week = 7

\* the day and period codes a service call was given: its last two arguments
ArgDay == last.args[Len(last.args) - 1]
ArgPeriod == last.args[Len(last.args)]

CoreQueryOperations ==
    {"get_average_speed_by_day_period", "get_average_speed_by_link_day_period",
     "get_link_in_box_day_period", "get_links_with_geometries_in_box_day_period"}

DayCheckedOperations ==
    {"get_average_speed_by_day_period", "get_link_in_box_day_period",
     "get_links_with_geometries_in_box_day_period",
     "get_links_geometry_roadname_speed_by_day_period"}

\* C3: every core query operation rejects a day code or a period code outside
\* 1..7 with an invalid-range error before any query is issued (period 999
\* raises instead of returning a zero result; the per-link aggregate raises
\* for day 0 and day 8).
C3_RejectsCodesOutsideRange ==
    (/\ last.layer = "service"
     /\ last.op \in CoreQueryOperations
     /\ (ArgDay \notin 1..7 \/ ArgPeriod \notin 1..7))
    => /\ last.outcome.kind = "raise"
       /\ last.outcome.exc = "ValueError"
       /\ last.outcome.fetches = 0

\* C4: with the handle connected, the global aggregate for a valid day and a
\* period code that has no observations, and the per-link aggregate for a
\* period code that has no observations (999 included), return the day and
\* period (and link_id) echoed and average_speed 0.0, the per-link one with
\* an 'error' key; they do not raise.
C4_PeriodWithoutObservationsReturnsZero ==
    /\ (/\ IsServiceCall("get_average_speed_by_day_period")
        /\ last.connected
        /\ ArgDay \in 1..7
        /\ ~\E r \in speed_record_table : r.period = ArgPeriod)
       => /\ last.outcome.kind = "return"
          /\ last.outcome.value.day_of_week = ArgDay
          /\ last.outcome.value.period = ArgPeriod
          /\ last.outcome.value.average_speed = 0
    /\ (/\ IsServiceCall("get_average_speed_by_link_day_period")
        /\ last.connected
        /\ ~\E r \in speed_record_table : r.period = ArgPeriod)
       => /\ last.outcome.kind = "return"
          /\ last.outcome.value.link_id = last.args[1]
          /\ last.outcome.value.day_of_week = ArgDay
          /\ last.outcome.value.period = ArgPeriod
          /\ last.outcome.value.average_speed = 0
          /\ "error" \in DOMAIN last.outcome.value

\* C4 witness: get_average_speed_by_link_day_period(999999999, 7, 999) on a
\* non-empty store returned the echoed arguments with an 'error' key
C4_Witness ==
    /\ IsServiceCall("get_average_speed_by_link_day_period")
    /\ last.args = <<999999999, 7, 999>>
    /\ speed_record_table # {}
    /\ last.outcome.kind = "return"
    /\ last.outcome.value.period = 999
    /\ "error" \in DOMAIN last.outcome.value

\* C5: the four operations that check the day, called with day < 1 or
\* day > 7, raise ValueError 'Day must be between 1 and 7 ...' (not the
\* wrapped 'Failed to ...' exception) and issue no query, whether or not the
\* database is connected.
C5_InvalidDayRaisesValueError ==
    (/\ last.layer = "service"
     /\ last.op \in DayCheckedOperations
     /\ (ArgDay < 1 \/ ArgDay > 7))
    => /\ last.outcome.kind = "raise"
       /\ last.outcome.exc = "ValueError"
       /\ last.outcome.msg = "Day must be between 1 and 7 (1=Monday, 7=Sunday)"
       /\ last.outcome.fetches = 0

\* C5 witness: get_link_in_box_day_period with day 8 on a disconnected handle
\* raised the ValueError without a fetch
C5_Witness ==
    /\ IsServiceCall("get_link_in_box_day_period")
    /\ ArgDay = 8
    /\ ~last.connected
    /\ last.outcome.kind = "raise"
    /\ last.outcome.exc = "ValueError"
    /\ last.outcome.fetches = 0

\* C6: with the handle connected, the per-link aggregate returns (does not
\* raise); when zero rows match, the record is the inputs echoed, with
\* average_speed 0.0 and the 'error' key; when a row matches, the record has
\* no 'error' key and carries record_count, road_name and geometry.
C6_LinkAggregateMarkerOrRecord ==
    (IsServiceCall("get_average_speed_by_link_day_period") /\ last.connected)
    => LET link_id == last.args[1]
           matched == /\ ObsOf(link_id, ArgDay, ArgPeriod) # {}
                      /\ \E l \in link_table : l.link_id = link_id
       IN /\ last.outcome.kind = "return"
          /\ ~matched =>
                /\ DOMAIN last.outcome.value =
                      {"link_id", "day_of_week", "period", "average_speed", "error"}
                /\ last.outcome.value.link_id = link_id
                /\ last.outcome.value.day_of_week = ArgDay
                /\ last.outcome.value.period = ArgPeriod
                /\ last.outcome.value.average_speed = 0
          /\ matched =>
                /\ "error" \notin DOMAIN last.outcome.value
                /\ {"record_count", "road_name", "geometry"} \subseteq DOMAIN last.outcome.value
                /\ last.outcome.value.record_count =
                      Cardinality(ObsOf(link_id, ArgDay, ArgPeriod))

\* C6 witness: link 100 has observations on (3, 3) only and was asked for
\* (7, 1): the no-data marker came back
C6_Witness ==
    /\ IsServiceCall("get_average_speed_by_link_day_period")
    /\ last.args = <<100, 7, 1>>
    /\ ObsOf(100, 3, 3) # {}
    /\ last.outcome.kind = "return"
    /\ "error" \in DOMAIN last.outcome.value
    /\ last.outcome.value.link_id = 100

\* the codes the documentation of the endpoints gives for the names
DayCodeOf(name) ==
    CASE name = "Sunday" -> 1 [] name = "Monday" -> 2 [] name = "Tuesday" -> 3
      [] name = "Wednesday" -> 4 [] name = "Thursday" -> 5 [] name = "Friday" -> 6
      [] name = "Saturday" -> 7

PeriodCodeOf(name) ==
    CASE name = "Overnight" -> 1 [] name = "Early Morning" -> 2 [] name = "AM Peak" -> 3
      [] name = "Midday" -> 4 [] name = "Early Afternoon" -> 5 [] name = "PM Peak" -> 6
      [] name = "Evening" -> 7

\* C7: at GET /aggregates/{link_id}, a service result carrying the no-data
\* marker becomes a 404 whose detail contains 'No data found', never a 500,
\* and the service is called exactly once with (link_id, day code, period code).
C7_NoDataMarkerBecomes404 ==
    (/\ IsHttpCall("GET /aggregates/{link_id}")
     /\ Len(last.response.service_calls) >= 1
     /\ last.response.service_calls[1].outcome.kind = "return"
     /\ "error" \in DOMAIN last.response.service_calls[1].outcome.value)
    => /\ last.response.status = 404
       /\ last.response.detail = "No data found for link"
       /\ Len(last.response.service_calls) = 1
       /\ last.response.service_calls[1].op = "get_average_speed_by_link_day_period"
       /\ last.response.service_calls[1].args =
             <<last.args[1], DayCodeOf(last.args[2]), PeriodCodeOf(last.args[3])>>

\* C7 witness: GET /aggregates/300?day=Tuesday&period=AM Peak, link 300 having
\* observations but no link row, was answered 404 after one service call
C7_Witness ==
    /\ IsHttpCall("GET /aggregates/{link_id}")
    /\ last.args = <<300, "Tuesday", "AM Peak">>
    /\ ObsOf(300, 3, 3) # {}
    /\ last.response.status = 404
    /\ Len(last.response.service_calls) = 1
    /\ last.response.service_calls[1].args = <<300, 3, 3>>

\* C8: GET /aggregates/{link_id} with valid names and a connected database is
\* answered 200 or 404, never 500; whenever the service finds matching rows
\* the status is 200 and the body carries link_id, day_of_week, period,
\* average_speed, road_name and length.
C8_LinkEndpoint200Or404 ==
    (/\ IsHttpCall("GET /aggregates/{link_id}")
     /\ last.args[2] \in DayName
     /\ last.args[3] \in PeriodName
     /\ last.connected)
    => /\ last.response.status \in {200, 404}
       /\ (/\ last.response.service_calls[1].outcome.kind = "return"
           /\ "error" \notin DOMAIN last.response.service_calls[1].outcome.value)
          => /\ last.response.status = 200
             /\ {"link_id", "day_of_week", "period", "average_speed", "road_name", "length"}
                   \subseteq DOMAIN last.response.body
             /\ last.response.body.link_id = last.args[1]
             /\ last.response.body.day_of_week = DayCodeOf(last.args[2])
             /\ last.response.body.period = PeriodCodeOf(last.args[3])

C10_NameCodeRoundTrip ==
    /\ (IsHelperCall("get_day_number") /\ last.args[1] \in DayName)
       => /\ last.outcome.kind = "return"
          /\ get_day_name(last.outcome.value) = Return(last.args[1], 0)
    /\ (IsHelperCall("get_period_number") /\ last.args[1] \in PeriodName)
       => /\ last.outcome.kind = "return"
          /\ get_period_name(last.outcome.value) = Return(last.args[1], 0)
    /\ (IsHelperCall("get_day_name") /\ last.args[1] \in 1..7)
       => /\ last.outcome.kind = "return"
          /\ get_day_number(last.outcome.value) = Return(last.args[1], 0)
    /\ (IsHelperCall("get_period_name") /\ last.args[1] \in 1..7)
       => /\ last.outcome.kind = "return"
          /\ get_period_number(last.outcome.value) = Return(last.args[1], 0)

\* C10 witness: get_period_name(7) returned "Evening", whose number is 7
C10_Witness ==
    /\ IsHelperCall("get_period_name")
    /\ last.args = <<7>>
    /\ last.outcome.kind = "return"
    /\ last.outcome.value = "Evening"
    /\ get_period_number("Evening").value = 7

\* the seven names of each set, as the specification lists them
SevenDayNames ==
    {"Sunday", "Monday", "Tuesday", "Wednesday", "Thursday", "Friday", "Saturday"}
SevenPeriodNames ==
    {"Overnight", "Early Morning", "AM Peak", "Midday", "Early Afternoon", "PM Peak", "Evening"}

\* the day and period a request carried (Missing when it carried none)
HttpDay == IF last.op = "GET /aggregates/{link_id}" THEN last.args[2] ELSE last.args[1]
HttpPeriod == IF last.op = "GET /aggregates/{link_id}" THEN last.args[3] ELSE last.args[2]

\* C11: a day or period name that is not exactly (case-sensitively) one of
\* the 7 names of its set is rejected: get_day_number / get_period_number fail
\* with a lookup error (KeyError), and every endpoint answers 422 for such a
\* name, or for a missing day or period, without invoking the service or the
\* database.
C11_UnknownNameRejected ==
    /\ (IsHelperCall("get_day_number") /\ last.args[1] \notin SevenDayNames)
       => /\ last.outcome.kind = "raise"
          /\ last.outcome.exc = "KeyError"
          /\ last.outcome.fetches = 0
    /\ (IsHelperCall("get_period_number") /\ last.args[1] \notin SevenPeriodNames)
       => /\ last.outcome.kind = "raise"
          /\ last.outcome.exc = "KeyError"
          /\ last.outcome.fetches = 0
    /\ (/\ last.layer = "http"
        /\ (HttpDay \notin SevenDayNames \/ HttpPeriod \notin SevenPeriodNames))
       => /\ last.response.status = 422
          /\ last.response.service_calls = <<>>

\* C11 witness: with the handle connected and Tuesday / AM Peak observations
\* in the store, POST /spatial-filter/ with day "tuesday" was answered 422
\* without a service call
C11_Witness ==
    /\ IsHttpCall("POST /spatial-filter/")
    /\ last.args = <<"tuesday", "AM Peak", BigBox>>
    /\ last.connected
    /\ ObsOf(100, 3, 3) # {}
    /\ last.response.status = 422
    /\ last.response.service_calls = <<>>

\* C12: get_day_name(code) and get_period_name(code) return a name for every
\* code in 1..7 and fail with an invalid-code error (ValueError 'Invalid ...
\* number') for every other integer code, e.g. 0, 8 and 999.
C12_InverseLookupTotalOnOneToSeven ==
    /\ IsHelperCall("get_day_name")
       => IF last.args[1] \in 1..7
          THEN /\ last.outcome.kind = "return"
               /\ last.outcome.value \in SevenDayNames
          ELSE /\ last.outcome.kind = "raise"
               /\ last.outcome.exc = "ValueError"
               /\ last.outcome.msg = "Invalid day number"
    /\ IsHelperCall("get_period_name")
       => IF last.args[1] \in 1..7
          THEN /\ last.outcome.kind = "return"
               /\ last.outcome.value \in SevenPeriodNames
          ELSE /\ last.outcome.kind = "raise"
               /\ last.outcome.exc = "ValueError"
               /\ last.outcome.msg = "Invalid period number"

\* C12 witness: get_day_name(8) raised the ValueError
C12_Witness ==
    /\ IsHelperCall("get_day_name")
    /\ last.args = <<8>>
    /\ last.outcome.kind = "raise"
    /\ last.outcome.exc = "ValueError"

\* a bounding box given to the validator, or carried by a spatial request
IsValidatorCall == IsHelperCall("validate_bbox")
IsSpatialRequest ==
    /\ IsHttpCall("POST /spatial-filter/")
    /\ last.args[1] \in SevenDayNames
    /\ last.args[2] \in SevenPeriodNames

LonInRange(x) == -18000 <= x /\ x <= 18000
LatInRange(y) == -9000 <= y /\ y <= 9000
BoxInRange(b) ==
    LonInRange(b[1]) /\ LonInRange(b[3]) /\ LatInRange(b[2]) /\ LatInRange(b[4])

\* C13: the bounding-box validator rejects every input whose number of
\* coordinates is not exactly 4 (e.g. 3 or 5 values), and POST /spatial-filter/
\* answers 422 for it without querying the store.
C13_WrongCoordinateCountRejected ==
    /\ (IsValidatorCall /\ Len(last.args[1]) # 4)
       => /\ last.outcome.kind = "raise"
          /\ last.outcome.exc = "ValueError"
          /\ last.outcome.msg = "Bounding box must contain exactly 4 coordinates"
    /\ (IsHttpCall("POST /spatial-filter/") /\ Len(last.args[3]) # 4)
       => /\ last.response.status = 422
          /\ last.response.service_calls = <<>>

\* C13 witness: POST /spatial-filter/ for Tuesday / AM Peak with five
\* coordinates, on a connected handle, was answered 422 without a service call
C13_Witness ==
    /\ IsSpatialRequest
    /\ Len(last.args[3]) = 5
    /\ last.connected
    /\ last.response.status = 422
    /\ last.response.service_calls = <<>>

\* C14: the validator rejects a 4-tuple (west, south, east, north) unless west
\* and east are both within [-180, 180] and south and north are both within
\* [-90, 90], bounds inclusive; [200.0, 30.1, -81.6, 30.3] is rejected as out
\* of range (and the endpoint answers 422), [-180, -90, 180, 90] is accepted.
C14_OutOfRangeRejected ==
    /\ (IsValidatorCall /\ Len(last.args[1]) = 4 /\ ~BoxInRange(last.args[1]))
       => /\ last.outcome.kind = "raise"
          /\ last.outcome.exc = "ValueError"
          /\ last.outcome.msg \in
                {"Longitude values (west, east) must be between -180 and 180",
                 "Latitude values (south, north) must be between -90 and 90"}
    /\ (IsValidatorCall /\ last.args[1] = <<-18000, -9000, 18000, 9000>>)
       => last.outcome.kind = "return"
    /\ (IsSpatialRequest /\ Len(last.args[3]) = 4 /\ ~BoxInRange(last.args[3]))
       => /\ last.response.status = 422
          /\ last.response.service_calls = <<>>
    /\ (IsSpatialRequest /\ last.args[3] = <<-18000, -9000, 18000, 9000>>)
       => last.response.status # 422

\* C14 witness: the validator raised the longitude error for
\* [200.0, 30.1, -81.6, 30.3]
C14_Witness ==
    /\ IsValidatorCall
    /\ last.args[1] = <<20000, 3010, -8160, 3030>>
    /\ last.outcome.kind = "raise"
    /\ last.outcome.msg = "Longitude values (west, east) must be between -180 and 180"

\* C15: the validator rejects every in-range 4-tuple with west >= east or
\* south >= north; the comparison is strict, so west = east or south = north
\* is rejected too, e.g. [-81.6, 30.1, -81.8, 30.3] and
\* [-81.6, 30.1, -81.6, 30.3]; the endpoint answers 422 for such a box.
C15_InvertedOrEmptyBoxRejected ==
    /\ (/\ IsValidatorCall
        /\ Len(last.args[1]) = 4
        /\ BoxInRange(last.args[1])
        /\ (last.args[1][1] >= last.args[1][3] \/ last.args[1][2] >= last.args[1][4]))
       => /\ last.outcome.kind = "raise"
          /\ last.outcome.exc = "ValueError"
          /\ last.outcome.msg \in
                {"West longitude must be less than east longitude",
                 "South latitude must be less than north latitude"}
    /\ (/\ IsSpatialRequest
        /\ Len(last.args[3]) = 4
        /\ BoxInRange(last.args[3])
        /\ (last.args[3][1] >= last.args[3][3] \/ last.args[3][2] >= last.args[3][4]))
       => /\ last.response.status = 422
          /\ last.response.service_calls = <<>>

\* C15 witness: POST /spatial-filter/ with the zero-width box
\* [-81.6, 30.1, -81.6, 30.3] was answered 422
C15_Witness ==
    /\ IsSpatialRequest
    /\ last.args[3] = <<-8160, 3010, -8160, 3030>>
    /\ last.connected
    /\ last.response.status = 422

\* C16: when the validator accepts a 4-tuple it returns it unchanged (same
\* four values, same order), and the same values are the ones passed to the
\* spatial query as (west, south, east, north) and echoed in the response's
\* bbox field.
C16_AcceptedBoxPassedUnchanged ==
    /\ (IsValidatorCall /\ last.outcome.kind = "return")
       => last.outcome.value = last.args[1]
    /\ (IsSpatialRequest /\ last.response.status # 422)
       => /\ Len(last.response.service_calls) = 1
          /\ SubSeq(last.response.service_calls[1].args, 1, 4) = last.args[3]
          /\ last.response.status = 200 => last.response.body.bbox = last.args[3]

\* C16 witness: POST /spatial-filter/ with the sub-box found link 100; the
\* service got the four values in order and the body echoes them
C16_Witness ==
    /\ IsSpatialRequest
    /\ last.args[3] = <<-8175, 3015, -8165, 3025>>
    /\ last.response.status = 200
    /\ last.response.body.count = 1
    /\ last.response.body.bbox = <<-8175, 3015, -8165, 3025>>
    /\ SubSeq(last.response.service_calls[1].args, 1, 4) = <<-8175, 3015, -8165, 3025>>

\* the second of two calls in a row, the first of which returned
IsSecondCall(op) == IsServiceCall(op) /\ "first" \in DOMAIN last

\* the box (west, south, east, north) of a spatial call
BoxOf(args) == SubSeq(args, 1, 4)

\* box a lies within box b
BoxWithin(a, b) == b[1] <= a[1] /\ b[2] <= a[2] /\ a[3] <= b[3] /\ a[4] <= b[4]

\* the link ids of a returned list of ids, or of a list of link records
IdsOfList(v) == {v[i] : i \in 1..Len(v)}
IdsOfRecords(v) == {v[i].link_id : i \in 1..Len(v)}

\* C17: for fixed store contents and fixed day/period, if bounding box A is
\* contained in bounding box B then every link id returned by the spatial
\* filter for A is also returned for B, and the count for B is >= the count
\* for A; e.g. [-81.75, 30.15, -81.65, 30.25] within [-81.8, 30.1, -81.6, 30.3].
C17_SubBoxResultWithinBoxResult ==
    /\ (/\ IsSecondCall("get_link_in_box_day_period")
        /\ last.outcome.kind = "return")
       => LET A == last.first.outcome.value
              B == last.outcome.value
          IN /\ BoxWithin(BoxOf(last.first.args), BoxOf(last.args))
                => IdsOfList(A) \subseteq IdsOfList(B) /\ Len(B) >= Len(A)
             /\ BoxWithin(BoxOf(last.args), BoxOf(last.first.args))
                => IdsOfList(B) \subseteq IdsOfList(A) /\ Len(A) >= Len(B)
    /\ (/\ IsSecondCall("get_links_with_geometries_in_box_day_period")
        /\ last.outcome.kind = "return")
       => LET A == last.first.outcome.value
              B == last.outcome.value
          IN /\ BoxWithin(BoxOf(last.first.args), BoxOf(last.args))
                => IdsOfRecords(A) \subseteq IdsOfRecords(B) /\ Len(B) >= Len(A)
             /\ BoxWithin(BoxOf(last.args), BoxOf(last.first.args))
                => IdsOfRecords(B) \subseteq IdsOfRecords(A) /\ Len(A) >= Len(B)

\* C17 witness: on Tuesday / AM Peak the sub-box returned link 100 only and
\* the box around it then returned links 100 and 200
C17_Witness ==
    /\ IsSecondCall("get_link_in_box_day_period")
    /\ last.first.args = <<-8175, 3015, -8165, 3025, 3, 3>>
    /\ last.args = <<-8180, 3010, -8160, 3030, 3, 3>>
    /\ last.first.outcome.value = <<100>>
    /\ last.outcome.kind = "return"
    /\ IdsOfList(last.outcome.value) = {100, 200}

\* the links whose segment lies on or in the rectangle of a box and that have
\* an observation on (day, period); a segment is parallel to an axis
LinksExpectedInBox(box, day, period) ==
    {l.link_id : l \in
        {x \in link_table :
            /\ ObsOf(x.link_id, day, period) # {}
            /\ \E px \in Min2(x.geometry.x1, x.geometry.x2)..Max2(x.geometry.x1, x.geometry.x2),
                  py \in Min2(x.geometry.y1, x.geometry.y2)..Max2(x.geometry.y1, x.geometry.y2) :
                  /\ box[1] <= px /\ px <= box[3]
                  /\ box[2] <= py /\ py <= box[4]}}

\* C18: both spatial operations return at most one entry per link_id:
\* get_link_in_box_day_period returns a list with no duplicate link ids even
\* when a link has many matching observations, and
\* get_links_with_geometries_in_box_day_period returns exactly one record per
\* intersecting link that has at least one matching observation.
C18_OneEntryPerLink ==
    /\ (IsServiceCall("get_link_in_box_day_period") /\ last.outcome.kind = "return")
       => LET v == last.outcome.value IN
          /\ \A i, j \in 1..Len(v) : v[i] = v[j] => i = j
          /\ IdsOfList(v) = LinksExpectedInBox(BoxOf(last.args), ArgDay, ArgPeriod)
    /\ (IsServiceCall("get_links_with_geometries_in_box_day_period")
           /\ last.outcome.kind = "return")
       => LET v == last.outcome.value IN
          /\ \A i, j \in 1..Len(v) : v[i].link_id = v[j].link_id => i = j
          /\ IdsOfRecords(v) = LinksExpectedInBox(BoxOf(last.args), ArgDay, ArgPeriod)

\* C18 witness: link 100 has three Tuesday / AM Peak observations and link
\* 200 two; the id list for the large box has two entries, one per link
C18_Witness ==
    /\ IsServiceCall("get_link_in_box_day_period")
    /\ last.args = <<-8180, 3010, -8160, 3030, 3, 3>>
    /\ Cardinality(ObsOf(100, 3, 3)) = 3
    /\ Cardinality(ObsOf(200, 3, 3)) >= 2
    /\ last.outcome.kind = "return"
    /\ Len(last.outcome.value) = 2
    /\ IdsOfList(last.outcome.value) = {100, 200}

\* the message that names each operation's failure
FailureMessage(op) ==
    CASE op = "get_average_speed_by_day_period" ->
            "Failed to calculate average speed aggregation"
      [] op = "get_average_speed_by_link_day_period" ->
            "Failed to calculate average speed aggregation for link"
      [] op = "get_link_in_box_day_period" ->
            "Failed to retrieve links in box by day and period"
      [] op = "get_links_with_geometries_in_box_day_period" ->
            "Failed to retrieve links with geometries in box by day and period"
      [] op = "get_links_geometry_roadname_speed_by_day_period" ->
            "Failed to get simplified aggregate data"

\* C19: when the store is unavailable (the shared database handle is
\* disconnected) every query operation called with valid arguments raises a
\* fault whose message names the failed operation; it never returns the
\* no-data result (zero speed, empty list, or the no-data marker).
C19_DisconnectedStoreRaisesFault ==
    (/\ last.layer = "service"
     /\ ~last.connected
     /\ ArgDay \in 1..7
     /\ ArgPeriod \in 1..7)
    => /\ last.outcome.kind = "raise"
       /\ last.outcome.exc = "Exception"
       /\ last.outcome.msg = FailureMessage(last.op)

\* C19 witness: get_average_speed_by_link_day_period(999999999, 3, 3), which
\* matches no row, raised the fault on the disconnected handle instead of
\* returning the no-data marker
C19_Witness ==
    /\ IsServiceCall("get_average_speed_by_link_day_period")
    /\ last.args = <<999999999, 3, 3>>
    /\ ~last.connected
    /\ last.outcome.kind = "raise"
    /\ last.outcome.msg = "Failed to calculate average speed aggregation for link"

\* C20: with unchanged store contents, repeating the same call of
\* get_average_speed_by_day_period, get_average_speed_by_link_day_period or
\* get_link_in_box_day_period with identical arguments returns an identical
\* result each time, including the order of the elements of a returned list.
C20_RepeatedCallIdenticalResult ==
    (/\ last.layer = "service"
     /\ last.op \in {"get_average_speed_by_day_period",
                     "get_average_speed_by_link_day_period",
                     "get_link_in_box_day_period"}
     /\ "first" \in DOMAIN last
     /\ last.args = last.first.args
     /\ last.connected = last.first.connected)
    => last.outcome = last.first.outcome

\* v is a whole number of hundredths and no other is nearer to num / den
NearestHundredth(v, num, den) == v \in Int /\ 2 * Abs(v * den - num) <= den

\* the average_speed of a link record is the mean of the link's speeds on
\* (day, period), rounded
LinkMeanRounded(entry, day, period) ==
    LET S == SpeedsOf(entry.link_id, day, period) IN
    S # {} => NearestHundredth(entry.average_speed,
                               SumSet([r \in S |-> r.average_speed], S), Cardinality(S))

\* C21: every average_speed value returned by any operation (overall mean,
\* per-link means, spatial-filter means) has at most 2 decimal digits, and
\* rounding is applied only after averaging: the overall mean of the global
\* aggregate is computed from the unrounded per-link means and rounded once.
C21_RoundedOnceAfterAveraging ==
    (last.layer = "service" /\ last.outcome.kind = "return")
    => LET v == last.outcome.value IN
       /\ (last.op = "get_average_speed_by_day_period" /\ v.links # <<>>)
          => LET L == LinksWithData(ArgDay, ArgPeriod)
                 cnt == [l \in L |-> Cardinality(SpeedsOf(l, ArgDay, ArgPeriod))]
                 sum == [l \in L |->
                           SumSet([r \in SpeedsOf(l, ArgDay, ArgPeriod) |-> r.average_speed],
                                  SpeedsOf(l, ArgDay, ArgPeriod))]
             IN /\ NearestHundredth(v.average_speed,
                                    SumSet([l \in L |-> sum[l] * ProdSet(cnt, L \ {l})], L),
                                    ProdSet(cnt, L) * Cardinality(L))
                /\ \A i \in 1..Len(v.links) : LinkMeanRounded(v.links[i], ArgDay, ArgPeriod)
       /\ (last.op = "get_average_speed_by_link_day_period" /\ "error" \notin DOMAIN v)
          => LinkMeanRounded(v, ArgDay, ArgPeriod)
       /\ last.op \in {"get_links_with_geometries_in_box_day_period",
                       "get_links_geometry_roadname_speed_by_day_period"}
          => \A i \in 1..Len(v) : LinkMeanRounded(v[i], ArgDay, ArgPeriod)

\* C21 witness: link 100 has the mean 40.02666... and link 200 the mean 50.00;
\* the aggregate returned 40.03 for link 100 and 45.01 overall (the mean of
\* the rounded means would be 45.015)
C21_Witness ==
    /\ IsServiceCall("get_average_speed_by_day_period")
    /\ speed_record_table = PrecisionRows
    /\ last.args = <<3, 3>>
    /\ last.outcome.kind = "return"
    /\ last.outcome.value.links[1].average_speed = 4003
    /\ last.outcome.value.average_speed = 4501

\* the links with a link row whose observations on (day, period) all have a
\* NULL average_speed
LinksWithNullAverage(day, period) ==
    {l \in LinksWithData(day, period) : SpeedsOf(l, day, period) = {}}

\* the link records of a returned value, whatever the operation
LinkRecordsOf(op, v) ==
    IF op = "get_average_speed_by_day_period" THEN {v.links[i] : i \in 1..Len(v.links)}
    ELSE IF op = "get_average_speed_by_link_day_period" THEN {v}
    ELSE IF op = "get_link_in_box_day_period" THEN {}
    ELSE {v[i] : i \in 1..Len(v)}

\* C22: in every operation a null/absent average (a link whose matching
\* observations all have a NULL average_speed) is treated as 0 before
\* rounding: the operation returns normally with that link's average_speed
\* equal to 0, and for the global aggregate the link contributes 0 to the
\* overall mean, rather than the operation raising.
C22_NullAverageTreatedAsZero ==
    (/\ last.layer = "service"
     /\ last.connected
     /\ ArgDay \in 1..7
     /\ LinksWithNullAverage(ArgDay, ArgPeriod) # {}
     /\ last.op = "get_average_speed_by_link_day_period"
           => last.args[1] \in LinksWithNullAverage(ArgDay, ArgPeriod))
    => /\ last.outcome.kind = "return"
       /\ \A e \in LinkRecordsOf(last.op, last.outcome.value) :
             e.link_id \in LinksWithNullAverage(ArgDay, ArgPeriod) => e.average_speed = 0
       /\ last.op = "get_average_speed_by_day_period"
          => LET L == LinksWithData(ArgDay, ArgPeriod)
                 N == L \ LinksWithNullAverage(ArgDay, ArgPeriod)
                 cnt == [l \in N |-> Cardinality(SpeedsOf(l, ArgDay, ArgPeriod))]
                 sum == [l \in N |->
                           SumSet([r \in SpeedsOf(l, ArgDay, ArgPeriod) |-> r.average_speed],
                                  SpeedsOf(l, ArgDay, ArgPeriod))]
             IN NearestHundredth(last.outcome.value.average_speed,
                                 SumSet([l \in N |-> sum[l] * ProdSet(cnt, N \ {l})], N),
                                 ProdSet(cnt, N) * Cardinality(L))

\* C23: no query operation ever inserts, updates or deletes an Observation or
\* Segment row: after any sequence of calls to the five service operations,
\* successful or failing, the contents of both tables are unchanged.
C23_TablesNeverChange ==
    [][speed_record_table' = speed_record_table /\ link_table' = link_table]_vars

\* C23 witness: after a call that returned and a second one on a handle that
\* was disconnected in between, which raised, the store still holds the five
\* observations of links 100 and 200 and both link rows
C23_Witness ==
    /\ last.layer = "service"
    /\ "first" \in DOMAIN last
    /\ last.first.outcome.kind = "return"
    /\ last.outcome.kind = "raise"
    /\ {r.id : r \in speed_record_table} = 1..5
    /\ link_table = FixtureLinks

\* a request body that passes the validation of its names and of its bbox
IsValidSpatialRequest ==
    /\ IsSpatialRequest
    /\ Len(last.args[3]) = 4
    /\ BoxInRange(last.args[3])
    /\ last.args[3][1] < last.args[3][3]
    /\ last.args[3][2] < last.args[3][4]

\* C24: POST /spatial-filter/ with a valid request answers 200 with a body
\* containing link_ids (a list of positive integers), count, day_of_week,
\* period and bbox, where count = len(link_ids), day_of_week and period are
\* the codes of the requested names, and bbox equals the requested bbox.
C24_SpatialFilterBodyHasLinkIds ==
    (IsValidSpatialRequest /\ last.connected)
    => /\ last.response.status = 200
       /\ {"link_ids", "count", "day_of_week", "period", "bbox"}
              \subseteq DOMAIN last.response.body
       /\ \A i \in 1..Len(last.response.body.link_ids) :
              last.response.body.link_ids[i] \in Nat \ {0}
       /\ last.response.body.count = Len(last.response.body.link_ids)
       /\ last.response.body.day_of_week = DayCodeOf(last.args[1])
       /\ last.response.body.period = PeriodCodeOf(last.args[2])
       /\ last.response.body.bbox = last.args[3]

\* C25: a valid spatial-filter request whose bounding box intersects no
\* segment with matching observations is a normal empty result, not an error:
\* get_link_in_box_day_period returns an empty list, and POST /spatial-filter/
\* answers 200 with an empty list and count = 0 (not 404 and not 500).
C25_EmptyBoxIsEmptyResult ==
    /\ (/\ IsServiceCall("get_link_in_box_day_period")
        /\ last.connected
        /\ ArgDay \in 1..7
        /\ ArgPeriod \in 1..7
        /\ LinksExpectedInBox(BoxOf(last.args), ArgDay, ArgPeriod) = {})
       => /\ last.outcome.kind = "return"
          /\ last.outcome.value = <<>>
    /\ (/\ IsValidSpatialRequest
        /\ last.connected
        /\ LinksExpectedInBox(last.args[3], DayCodeOf(last.args[1]),
                              PeriodCodeOf(last.args[2])) = {})
       => /\ last.response.status = 200
          /\ last.response.body.links = <<>>
          /\ last.response.body.count = 0

\* C25 witness: with Tuesday / AM Peak observations of both links in the
\* store, the request for Tuesday / AM Peak in [-90, 25, -89, 26], a box that
\* holds no link, was answered 200 with no links
C25_Witness ==
    /\ IsHttpCall("POST /spatial-filter/")
    /\ last.args = <<"Tuesday", "AM Peak", OceanBox>>
    /\ LinksWithData(3, 3) = {100, 200}
    /\ last.connected
    /\ last.response.status = 200
    /\ last.response.body.count = 0

\* C26: requests are independent of one another: the outcome of a query
\* operation depends only on its arguments and the store contents, never on
\* what another concurrent request or task does; no in-process mutable shared
\* state (such as the connected/disconnected state of the process-wide
\* database handle) lets one task make another task's later query fail. The
\* store contents never change here, so a caller that repeats a call that
\* returned must see it return again.
C26_OutcomeIndependentOfOtherTasks ==
    (/\ last.layer = "service"
     /\ "first" \in DOMAIN last
     /\ last.args = last.first.args)
    => last.outcome.kind = last.first.outcome.kind

\* the link ids that have observations on (day, period) but no link row
LinksWithoutSegment(day, period) ==
    {r.link_id : r \in {x \in speed_record_table :
                           /\ x.day_of_week = day
                           /\ x.period = period
                           /\ \A l \in link_table : l.link_id # x.link_id}}

\* the link ids a returned value speaks of, whatever the operation
LinkIdsOf(op, v) ==
    IF op = "get_link_in_box_day_period" THEN IdsOfList(v)
    ELSE IF op = "get_average_speed_by_link_day_period"
    THEN IF "error" \in DOMAIN v THEN {} ELSE {v.link_id}
    ELSE {x.link_id : x \in LinkRecordsOf(op, v)}

\* C27: observations whose link_id has no row in the link table are excluded
\* from every inner-join-based result: such a link never appears in the links
\* list of the global aggregate, in the simplified list or in either
\* spatial-filter result, its observations are not counted in record_count or
\* in the overall mean, and the per-link aggregate returns the no-data marker
\* for it.
C27_LinksWithoutSegmentExcluded ==
    (last.layer = "service" /\ last.outcome.kind = "return")
    => LET v == last.outcome.value
           L == LinksWithData(ArgDay, ArgPeriod)
       IN /\ LinkIdsOf(last.op, v) \cap LinksWithoutSegment(ArgDay, ArgPeriod) = {}
          /\ IsServiceCall("get_average_speed_by_day_period")
             => /\ v.record_count =
                      SumSet([l \in L |-> Cardinality(ObsOf(l, ArgDay, ArgPeriod))], L)
                /\ v.links # <<>>
                   => LET cnt == [l \in L |-> Cardinality(SpeedsOf(l, ArgDay, ArgPeriod))]
                          sum == [l \in L |->
                                    SumSet([r \in SpeedsOf(l, ArgDay, ArgPeriod) |->
                                               r.average_speed],
                                           SpeedsOf(l, ArgDay, ArgPeriod))]
                      IN NearestHundredth(v.average_speed,
                                          SumSet([l \in L |-> sum[l] * ProdSet(cnt, L \ {l})], L),
                                          ProdSet(cnt, L) * Cardinality(L))
          /\ (/\ IsServiceCall("get_average_speed_by_link_day_period")
              /\ last.args[1] \in LinksWithoutSegment(ArgDay, ArgPeriod))
             => /\ "error" \in DOMAIN v
                /\ v.average_speed = 0

\* C27 witness: with the observation of link 300, which has no link row, next
\* to the five of links 100 and 200, the global aggregate returned two links
\* and a record_count of 5
C27_Witness ==
    /\ IsServiceCall("get_average_speed_by_day_period")
    /\ last.args = <<3, 3>>
    /\ {r.id : r \in speed_record_table} = 1..6
    /\ LinksWithoutSegment(3, 3) = {300}
    /\ last.outcome.kind = "return"
    /\ Len(last.outcome.value.links) = 2
    /\ last.outcome.value.record_count = 5

\* C28: the links list of the global aggregate and the list returned by
\* get_links_geometry_roadname_speed_by_day_period are sorted by link_id in
\* strictly ascending order and contain exactly one entry per link that has
\* at least one matching observation and a link row; the simplified operation
\* returns only the list (an empty list when nothing matches) and computes no
\* overall aggregate.
C28_ListsSortedOneEntryPerLink ==
    (/\ last.layer = "service"
     /\ last.op \in {"get_average_speed_by_day_period",
                     "get_links_geometry_roadname_speed_by_day_period"}
     /\ last.outcome.kind = "return")
    => LET v == last.outcome.value
           list == IF last.op = "get_average_speed_by_day_period" THEN v.links ELSE v
       IN /\ \A i \in 1..Len(list) - 1 : list[i].link_id < list[i + 1].link_id
          /\ IdsOfRecords(list) = LinksWithData(ArgDay, ArgPeriod)
          /\ Len(list) = Cardinality(LinksWithData(ArgDay, ArgPeriod))
          /\ IsServiceCall("get_links_geometry_roadname_speed_by_day_period")
             => /\ DOMAIN v = 1..Len(v)
                /\ \A i \in 1..Len(v) :
                       DOMAIN v[i] = {"link_id", "geometry", "road_name", "average_speed"}
                /\ LinksWithData(ArgDay, ArgPeriod) = {} => v = <<>>

\* C28 witness: the simplified operation returned link 100 and then link 200
C28_Witness ==
    /\ IsServiceCall("get_links_geometry_roadname_speed_by_day_period")
    /\ last.args = <<3, 3>>
    /\ last.outcome.kind = "return"
    /\ Len(last.outcome.value) = 2
    /\ last.outcome.value[1].link_id = 100
    /\ last.outcome.value[2].link_id = 200

\* C29: each call of a service operation issues at most one query to the
\* store and never retries: if validation fails it issues none, otherwise it
\* issues exactly one, and if that one query fails the failure is propagated
\* to the caller as a fault without a second attempt and without being
\* swallowed.
C29_OneQueryNoRetry ==
    last.layer = "service"
    => LET rejected == last.outcome.kind = "raise" /\ last.outcome.exc = "ValueError" IN
       /\ last.outcome.fetches <= 1
       /\ rejected => last.outcome.fetches = 0
       /\ ~rejected => last.outcome.fetches = 1
       /\ (~rejected /\ ~last.connected)
          => /\ last.outcome.kind = "raise"
             /\ last.outcome.fetches = 1

\* C29 witness: get_link_in_box_day_period on a disconnected handle raised
\* after one query
C29_Witness ==
    /\ IsServiceCall("get_link_in_box_day_period")
    /\ ~last.connected
    /\ last.outcome.kind = "raise"
    /\ last.outcome.exc = "Exception"
    /\ last.outcome.fetches = 1

\* C30: GET /aggregates/ with valid day and period names answers 404 exactly
\* when the service returns an empty list (the 404 raised inside the handler
\* is re-raised and not converted to 500), answers 500 exactly when the
\* service raises, and otherwise answers 200 with one LinkData record per
\* service row, in the same order, carrying that row's link_id, geometry,
\* road_name and average_speed.
C30_AggregatesStatusFollowsService ==
    (/\ IsHttpCall("GET /aggregates/")
     /\ last.args[1] \in SevenDayNames
     /\ last.args[2] \in SevenPeriodNames)
    => /\ Len(last.response.service_calls) = 1
       /\ LET out == last.response.service_calls[1].outcome
              body == last.response.body
          IN /\ last.response.status = 404 <=> (out.kind = "return" /\ out.value = <<>>)
             /\ last.response.status = 500 <=> out.kind = "raise"
             /\ (out.kind = "return" /\ out.value # <<>>)
                => /\ last.response.status = 200
                   /\ Len(body) = Len(out.value)
                   /\ \A i \in 1..Len(body) :
                          /\ DOMAIN body[i] =
                                 {"link_id", "geometry", "road_name", "average_speed"}
                          /\ body[i].link_id = out.value[i].link_id
                          /\ body[i].geometry = out.value[i].geometry
                          /\ body[i].road_name = out.value[i].road_name
                          /\ body[i].average_speed = out.value[i].average_speed

\* C30 witness: GET /aggregates/?day=Monday&period=Evening on a connected
\* handle, no observation being on Monday evening, was answered 404
C30_Witness ==
    /\ IsHttpCall("GET /aggregates/")
    /\ last.args = <<"Monday", "Evening">>
    /\ last.connected
    /\ last.response.status = 404
    /\ last.response.service_calls[1].outcome.value = <<>>

====
